---- MODULE Spec2Model ----
(***************************************************************************)
(* Adjustment blending (Maya_adjustment_blending.py).                      *)
(*                                                                         *)
(* The module models one call of adjustment_blend_object or of             *)
(* adjustment_blend_character against a scene: the animation layers and    *)
(* their preferred flags, the characters, and for every object a pose      *)
(* curve (keys on the topmost additive layer) and a base curve (root       *)
(* layer).                                                                 *)
(*                                                                         *)
(* Python floats are IEEE-754 doubles.  A double d >= 0 is the record      *)
(* [h, m, l] of the three base-2^20 digits of d * 2^60; every operation    *)
(* computes the exact result and rounds it to 53 significant bits, ties to *)
(* even, as the hardware does.  Curve values are integer valued, so the    *)
(* subtraction, abs and sum of get_change_values_frac are exact and are    *)
(* done on integers; the division, the multiplication by the pose change,  *)
(* the accumulation of the pose value and the accumulation of the sample   *)
(* time are rounded operations.                                            *)
(***************************************************************************)
EXTENDS Integers, Sequences, FiniteSets, TLC

(* ------------------------------ bounds -------------------------------- *)
\* scenes of adjustment_blend_object: layers, last frame, base-curve values
MaxLayers == 3
MaxTime == 2
MaxBase == 1
\* members of a character
MaxObjs == 2
\* one KeyPair from frame 0: its last frame, base-curve and pose-curve values
MaxStop == 2
MaxBaseB == 2
MaxPoseB == 3
\* last frame of the KeyPairs the sampler is run on
MaxSampleStop == 3

(* ------------------------- double arithmetic -------------------------- *)
B == 2 ^ 20

RECURSIVE Log2(_)
Log2(n) == IF n < 2 THEN 0 ELSE 1 + Log2(n \div 2)

RECURSIVE Pow2(_)
Pow2(k) == IF k = 0 THEN 1 ELSE 2 * Pow2(k - 1)

\* carry propagation: the digits of h*2^40 + m*2^20 + l
Norm(h, m, l) ==
    LET m1 == m + (l \div B)
    IN  [h |-> h + (m1 \div B), m |-> m1 % B, l |-> l % B]

\* unit in the last place of a double in the binade of v, in units of 2^-60
Ulp(v) == IF v.h >= 2 ^ 13 THEN Pow2(Log2(v.h) - 12) ELSE 1

\* round v (plus a tail below 2^-60: st = 0 none, 1 below half a unit,
\* 2 half a unit, 3 above) to 53 significant bits, ties to even
DblRound(v, st) ==
    LET ulp == Ulp(v)
        r   == v.l % ulp
        odd == ((v.l \div ulp) % 2) = 1
        up  == IF ulp = 1
               THEN st = 3 \/ (st = 2 /\ odd)
               ELSE 2 * r > ulp \/ (2 * r = ulp /\ (st > 0 \/ odd))
    IN  Norm(v.h, v.m, v.l - r + (IF up THEN ulp ELSE 0))

DblAdd(a, b) == DblRound(Norm(a.h + b.h, a.m + b.m, a.l + b.l), 0)

DblSub(a, b) == DblRound(Norm(a.h - b.h, a.m - b.m, a.l - b.l), 0)

DblMulInt(a, n) == DblRound(Norm(a.h * n, a.m * n, a.l * n), 0)

\* the double nearest c / t for integers 0 <= c, 0 < t
DblDivInt(c, t) ==
    LET r1 == (c * B) % t
        r2 == (r1 * B) % t
        r3 == (r2 * B) % t
        st == IF r3 = 0 THEN 0
              ELSE IF 2 * r3 < t THEN 1
              ELSE IF 2 * r3 = t THEN 2 ELSE 3
    IN  DblRound([h |-> (c * B) \div t, m |-> (r1 * B) \div t,
                  l |-> (r2 * B) \div t], st)

DblGT(a, b) == \/ a.h > b.h
               \/ a.h = b.h /\ a.m > b.m
               \/ a.h = b.h /\ a.m = b.m /\ a.l > b.l

FromInt(n) == [h |-> n * B, m |-> 0, l |-> 0]

Zero == FromInt(0)

Floor(d) == d.h \div B

\* the double 0.2 = 0x1999999999999A * 2^-55
Step == [h |-> 209715, m |-> 209715, l |-> 209728]

Abs(x) == IF x < 0 THEN -x ELSE x

RECURSIVE Sum(_)
Sum(s) == IF s = <<>> THEN 0 ELSE s[1] + Sum(Tail(s))

(* ------------------------------ scene --------------------------------- *)
ChildNames == [i \in 1..MaxLayers |-> "AnimLayer" \o ToString(i)]

ObjNames == {"", "pCube1"}

NoAnim == [has_curve |-> FALSE, keys |-> <<>>, pose |-> <<>>, base |-> <<>>]

\* strictly ascending key times
KeySeqs(maxTime, maxKeys) ==
    {s \in UNION {[1..n -> 0..maxTime] : n \in 0..maxKeys} :
        \A i \in 1..(Len(s) - 1) : s[i] < s[i + 1]}

\* the animation of one object: the key times and values of its pose-layer
\* curve, and the values of the keys of its base-layer curve, one per frame
MkAnim(k, p, b) == [has_curve |-> TRUE, keys |-> k, pose |-> p, base |-> b]

\* curves of fewer than two keys
FewKeys(maxTime) ==
    {MkAnim(k, [i \in 1..Len(k) |-> 1], [f \in 0..maxTime |-> 0]) :
        k \in KeySeqs(maxTime, 1)}

\* every choice of pose keys on the frames 0..MaxTime, the pose value of the
\* key on frame f being f + 1, over every base curve
SceneAnims ==
    {NoAnim} \cup FewKeys(MaxTime)
    \cup {MkAnim(k, [i \in 1..Len(k) |-> k[i] + 1], b) :
            k \in {x \in KeySeqs(MaxTime, MaxTime + 1) : Len(x) >= 2},
            b \in [0..MaxTime -> 0..MaxBase]}

\* the animations of a character's members
CharAnims ==
    {NoAnim} \cup FewKeys(1)
    \cup {MkAnim(<<0, 1>>, <<1, 2>>, b) : b \in [0..1 -> 0..1]}

\* one KeyPair from frame 0, over every pose value and base curve
BlendAnims ==
    UNION {{MkAnim(<<0, stop>>, p, b) :
                p \in [1..2 -> 1..MaxPoseB], b \in [0..stop -> 0..MaxBaseB]} :
            stop \in 1..MaxStop}

\* one KeyPair between any two frames
SampleAnims ==
    {MkAnim(k, <<1, 2>>, b) :
        k \in {x \in KeySeqs(MaxSampleStop, 2) : Len(x) = 2},
        b \in [0..MaxSampleStop -> 0..1]}

ObjLists == UNION {[1..n -> ObjNames] : n \in 0..MaxObjs}

(* ------------------------------ state --------------------------------- *)
VARIABLES
    root_layer,       \* the scene's root animation layer, "" when none
    children,         \* the root layer's children, bottom to top
    preferred,        \* layer -> its preferred flag
    scene_chars,      \* cmds.ls(type='character')
    call,             \* the entry point: "object" or "character"
    pc,               \* position in the code
    character,        \* adjustment_blend_character: its argument ("" = None)
    character_objs,   \* the character's members
    obj_idx,          \* position of the loop over character_objs
    warnings,         \* number of displayWarning calls
    obj,              \* adjustment_blend_object: its argument
    anim,             \* the scene's animation of obj
    pose_layer,
    pose_keys,
    key_pair_list,
    kp,               \* position of the loop over key_pair_list
    span_values,
    current,          \* the sampler's loop variable
    frac_values,
    total_base_layer_change,
    previous_value,
    index,            \* position of the loop over frac_values
    written,          \* the keyframes set for the current KeyPair
    pair_log,         \* one entry per KeyPair the object loop has finished
    last_op,          \* the scene command the last step ran
    last_set          \* argument and prior flags of the last set_layer_as_preferred

vars == <<root_layer, children, preferred, scene_chars, call, pc, character,
          character_objs, obj_idx, warnings, obj, anim, pose_layer, pose_keys,
          key_pair_list, kp, span_values, current, frac_values,
          total_base_layer_change, previous_value, index, written, pair_log,
          last_op, last_set>>

sceneVars == <<root_layer, children, scene_chars, call>>

charVars == <<character, character_objs, obj_idx, warnings>>

(* -------------------------- pure functions ---------------------------- *)
get_all_layers ==
    IF root_layer # "" THEN <<root_layer>> \o children ELSE <<>>

Range(s) == {s[i] : i \in DOMAIN s}

\* mutant: sets the flag of the given layer and clears no other
set_layer_as_preferred_Mut(pref, layer) ==
    [l \in DOMAIN pref |->
        IF l \in Range(get_all_layers) /\ l = layer THEN TRUE ELSE pref[l]]

set_layer_as_preferred(pref, layer) ==
    [l \in DOMAIN pref |->
        IF l \in Range(get_all_layers) THEN l = layer ELSE pref[l]]

\* the layer the scene evaluates a curve on
PreferredLayer(pref) ==
    LET ls  == get_all_layers
        set == {i \in DOMAIN ls : pref[ls[i]]}
    IN  IF set = {} THEN root_layer
        ELSE ls[CHOOSE i \in set : \A j \in set : i <= j]

\* the base curve has one key per frame and holds the value of the nearest key
BaseAt(a, t) == a.base[(t.h + B \div 2) \div B]

PoseAt(a, t) ==
    LET before == {i \in DOMAIN a.keys : a.keys[i] <= Floor(t)}
    IN  IF before = {} THEN a.pose[1]
        ELSE a.pose[CHOOSE i \in before : \A j \in before : j <= i]

\* cmds.keyframe(obj, q=1, eval=1, t=(t, t))[0]
keyframe_eval(a, pref, t) ==
    IF PreferredLayer(pref) = root_layer THEN BaseAt(a, t) ELSE PoseAt(a, t)

\* cmds.keyframe(obj, q=1): the key times of the curve evaluated
keyframe_times(a, pref) ==
    IF PreferredLayer(pref) = root_layer
    THEN [i \in 1..Cardinality(DOMAIN a.base) |-> i - 1]
    ELSE a.keys

\* mutant: every pair starts at the first key
get_key_pairs_from_keys_Mut(a, pref, keys) ==
    [i \in 1..(Len(keys) - 1) |->
        [start_time  |-> keys[1],
         stop_time   |-> keys[i + 1],
         start_value |-> keyframe_eval(a, pref, FromInt(keys[1])),
         stop_value  |-> keyframe_eval(a, pref, FromInt(keys[i + 1]))]]

get_key_pairs_from_keys(a, pref, keys) ==
    [i \in 1..(Len(keys) - 1) |->
        [start_time  |-> keys[i],
         stop_time   |-> keys[i + 1],
         start_value |-> keyframe_eval(a, pref, FromInt(keys[i])),
         stop_value  |-> keyframe_eval(a, pref, FromInt(keys[i + 1]))]]

\* mutant: the loop stops one step early
change_values_of_Mut(span) ==
    <<0>> \o [i \in 1..(Len(span) - 2) |-> Abs(span[i + 1].value - span[i].value)]

\* lines 80-84
change_values_of(span) ==
    <<0>> \o [i \in 1..(Len(span) - 1) |-> Abs(span[i + 1].value - span[i].value)]

\* mutant: the test of the total guards the division only
get_change_values_frac_Mut(span) ==
    LET change_values == change_values_of(span)
        total == Sum(change_values)
    IN  [frac_values |->
            [i \in 1..Len(span) |->
                [t |-> span[i].t,
                 frac |-> IF total # 0 THEN DblDivInt(change_values[i], total)
                          ELSE Zero]],
         total |-> total]

get_change_values_frac(span) ==
    LET change_values == change_values_of(span)
        total == Sum(change_values)
    IN  [frac_values |->
            IF total # 0
            THEN [i \in 1..Len(change_values) |->
                    [t |-> span[i].t, frac |-> DblDivInt(change_values[i], total)]]
            ELSE <<>>,
         total |-> total]

\* line 121
total_pose_layer_change(key_pair) == Abs(key_pair.stop_value - key_pair.start_value)

\* mutant: the pose change is taken to be stop_value
value_delta_of_Mut(key_pair, frac) == DblMulInt(frac, key_pair.stop_value)

\* line 125
value_delta_of(key_pair, frac) == DblMulInt(frac, total_pose_layer_change(key_pair))

\* mutant: the comparison is the wrong way round
direction_of_Mut(key_pair) ==
    IF key_pair.stop_value < key_pair.start_value THEN 1 ELSE -1

\* mutant: the comparison is not strict
direction_of_MutGE(key_pair) ==
    IF key_pair.stop_value >= key_pair.start_value THEN 1 ELSE -1

\* line 127
direction_of(key_pair) ==
    IF key_pair.stop_value > key_pair.start_value THEN 1 ELSE -1

\* lines 127-130
current_value_of(key_pair, prev, value_delta) ==
    IF direction_of(key_pair) = 1
    THEN DblAdd(prev, value_delta)
    ELSE DblSub(prev, value_delta)

(* ------------------------------- Init --------------------------------- *)
NoSet == [layer |-> "", before |-> <<>>]

Locals ==
    /\ anim = NoAnim
    /\ pose_layer = ""
    /\ pose_keys = <<>>
    /\ key_pair_list = <<>>
    /\ kp = 0
    /\ span_values = <<>>
    /\ current = Zero
    /\ frac_values = <<>>
    /\ total_base_layer_change = 0
    /\ previous_value = Zero
    /\ index = 0
    /\ written = <<>>
    /\ pair_log = <<>>

\* no layer, or a root layer below up to MaxLayers - 1 layers, any of them
\* preferred
LayerScene ==
    /\ \/ /\ root_layer = ""
          /\ children = <<>>
       \/ /\ root_layer = "BaseAnimation"
          /\ \E n \in 0..(MaxLayers - 1) : children = SubSeq(ChildNames, 1, n)
    /\ preferred \in [Range(get_all_layers) -> BOOLEAN]

Idle ==
    /\ character_objs = <<>>
    /\ obj_idx = 0
    /\ warnings = 0
    /\ Locals
    /\ last_op = "none"
    /\ last_set = NoSet

ObjectCall ==
    /\ call = "object"
    /\ scene_chars = <<>>
    /\ pc = "o_enter"
    /\ character = ""
    /\ obj = "pCube1"
    /\ Idle

\* adjustment_blend_object(obj) is called in any scene
Init == LayerScene /\ ObjectCall

\* adjustment_blend_character(character) is called in any scene
InitCharacter ==
    /\ LayerScene
    /\ call = "character"
    /\ scene_chars \in {<<>>, <<"character1">>}
    /\ pc = "c_resolve"
    /\ character \in {"", "character1"}
    /\ obj = ""
    /\ Idle

\* adjustment_blend_object(obj) is called in a scene of two layers
InitTwoLayers ==
    /\ root_layer = "BaseAnimation"
    /\ children = <<"AnimLayer1">>
    /\ preferred \in [Range(get_all_layers) -> BOOLEAN]
    /\ ObjectCall

AllEqual(span) == \A i, j \in DOMAIN span : span[i].value = span[j].value

(* ------------------------------ actions ------------------------------- *)
localVars == <<anim, pose_layer, pose_keys, key_pair_list, kp, span_values,
               current, frac_values, total_base_layer_change, previous_value,
               index, written, pair_log>>

\* lines 140-141; indexing the empty list raises IndexError
CharResolve ==
    /\ pc = "c_resolve"
    /\ IF character = ""
       THEN /\ last_op' = "ls"
            /\ IF scene_chars = <<>>
               THEN pc' = "raised" /\ character' = character
               ELSE pc' = "c_members" /\ character' = scene_chars[1]
       ELSE /\ last_op' = "none"
            /\ pc' = "c_members"
            /\ character' = character
    /\ UNCHANGED <<sceneVars, preferred, character_objs, obj_idx, warnings,
                   obj, localVars, last_set>>

\* lines 142-145 and 149-152
CharMembers ==
    /\ pc = "c_members"
    /\ IF character # ""
       THEN \E objs \in ObjLists :
               /\ character_objs' = objs
               /\ last_op' = "character"
               /\ IF objs # <<>>
                  THEN /\ warnings' = warnings
                       /\ IF Len(get_all_layers) > 1
                          THEN pc' = "c_loop" /\ obj_idx' = 1
                          ELSE pc' = "done" /\ obj_idx' = obj_idx
                  ELSE /\ warnings' = warnings + 1
                       /\ pc' = "done"
                       /\ obj_idx' = obj_idx
       ELSE /\ warnings' = warnings + 1
            /\ last_op' = "none"
            /\ pc' = "done"
            /\ UNCHANGED <<character_objs, obj_idx>>
    /\ UNCHANGED <<sceneVars, preferred, character, obj, localVars, last_set>>

\* lines 146-148
CharLoop ==
    /\ pc = "c_loop"
    /\ IF obj_idx > Len(character_objs)
       THEN pc' = "done" /\ UNCHANGED <<obj, obj_idx>>
       ELSE /\ obj' = character_objs[obj_idx]
            /\ IF character_objs[obj_idx] # ""
               THEN pc' = "o_enter" /\ obj_idx' = obj_idx
               ELSE pc' = "c_loop" /\ obj_idx' = obj_idx + 1
    /\ last_op' = "none"
    /\ UNCHANGED <<sceneVars, preferred, character, character_objs, warnings,
                   localVars, last_set>>

\* lines 98-101; pool is the set of animations obj may have in the scene
ObjEnter(pool) ==
    /\ pc = "o_enter"
    /\ \E a \in pool : anim' = a
    /\ IF Len(get_all_layers) > 1
       THEN /\ pose_layer' = get_all_layers[Len(get_all_layers)]
            /\ preferred' = set_layer_as_preferred(preferred, root_layer)
            /\ last_set' = [layer |-> root_layer, before |-> preferred]
            /\ last_op' = "set_preferred"
            /\ pc' = "o_curve"
       ELSE /\ pc' = "o_return"
            /\ last_op' = "none"
            /\ UNCHANGED <<pose_layer, preferred, last_set>>
    /\ UNCHANGED <<sceneVars, charVars, obj, pose_keys, key_pair_list, kp,
                   span_values, current, frac_values, total_base_layer_change,
                   previous_value, index, written, pair_log>>

\* lines 102-103
ObjCurve ==
    /\ pc = "o_curve"
    /\ last_op' = "query_curve"
    /\ pc' = IF anim.has_curve THEN "o_keys" ELSE "o_return"
    /\ UNCHANGED <<sceneVars, charVars, preferred, obj, localVars, last_set>>

\* lines 104-107
ObjKeys ==
    /\ pc = "o_keys"
    /\ preferred' = set_layer_as_preferred(preferred, pose_layer)
    /\ last_set' = [layer |-> pose_layer, before |-> preferred]
    /\ pose_keys' = keyframe_times(anim, preferred')
    /\ last_op' = "read_keys"
    /\ pc' = IF Len(pose_keys') > 1 THEN "o_pairs" ELSE "o_return"
    /\ UNCHANGED <<sceneVars, charVars, obj, anim, pose_layer, key_pair_list,
                   kp, span_values, current, frac_values,
                   total_base_layer_change, previous_value, index, written,
                   pair_log>>

\* line 108
ObjPairs ==
    /\ pc = "o_pairs"
    /\ key_pair_list' = get_key_pairs_from_keys(anim, preferred, pose_keys)
    /\ kp' = 1
    /\ last_op' = "eval_key"
    /\ pc' = "p_loop"
    /\ UNCHANGED <<sceneVars, charVars, preferred, obj, anim, pose_layer,
                   pose_keys, span_values, current, frac_values,
                   total_base_layer_change, previous_value, index, written,
                   pair_log, last_set>>

\* lines 109-117: the next KeyPair, its two keyTangent calls
PairNext ==
    /\ pc = "p_loop"
    /\ kp <= Len(key_pair_list)
    /\ last_op' = "set_tangent"
    /\ pc' = "s_begin"
    /\ UNCHANGED <<sceneVars, charVars, preferred, obj, localVars, last_set>>

\* line 109: the loop over key_pair_list ends
PairsDone ==
    /\ pc = "p_loop"
    /\ kp > Len(key_pair_list)
    /\ last_op' = "none"
    /\ pc' = "o_return"
    /\ UNCHANGED <<sceneVars, charVars, preferred, obj, localVars, last_set>>

\* lines 53-56
SampleBegin ==
    /\ pc = "s_begin"
    /\ span_values' = <<>>
    /\ preferred' = set_layer_as_preferred(preferred, root_layer)
    /\ last_set' = [layer |-> root_layer, before |-> preferred]
    /\ current' = FromInt(key_pair_list[kp].start_time)
    /\ last_op' = "set_preferred"
    /\ pc' = "s_loop"
    /\ UNCHANGED <<sceneVars, charVars, obj, anim, pose_layer, pose_keys,
                   key_pair_list, kp, frac_values, total_base_layer_change,
                   previous_value, index, written, pair_log>>

\* lines 57-60
SampleStep ==
    /\ pc = "s_loop"
    /\ ~ DblGT(current, FromInt(key_pair_list[kp].stop_time))
    /\ span_values' = Append(span_values,
            [t |-> current, value |-> keyframe_eval(anim, preferred, current)])
    /\ current' = DblAdd(current, Step)
    /\ last_op' = "sample_eval"
    /\ UNCHANGED <<sceneVars, charVars, preferred, pc, obj, anim, pose_layer,
                   pose_keys, key_pair_list, kp, frac_values,
                   total_base_layer_change, previous_value, index, written,
                   pair_log, last_set>>

\* mutant: line 119 is missing
SampleEnd_Mut ==
    /\ pc = "s_loop"
    /\ DblGT(current, FromInt(key_pair_list[kp].stop_time))
    /\ frac_values' = get_change_values_frac(span_values).frac_values
    /\ total_base_layer_change' = get_change_values_frac(span_values).total
    /\ previous_value' = FromInt(key_pair_list[kp].start_value)
    /\ index' = 1
    /\ written' = <<>>
    /\ last_op' = "none"
    /\ pc' = "w_loop"
    /\ UNCHANGED <<sceneVars, charVars, preferred, obj, anim, pose_layer,
                   pose_keys, key_pair_list, kp, span_values, current,
                   pair_log, last_set>>

\* lines 57 and 61, then lines 119-122
SampleEnd ==
    /\ pc = "s_loop"
    /\ DblGT(current, FromInt(key_pair_list[kp].stop_time))
    /\ preferred' = set_layer_as_preferred(preferred, pose_layer)
    /\ last_set' = [layer |-> pose_layer, before |-> preferred]
    /\ frac_values' = get_change_values_frac(span_values).frac_values
    /\ total_base_layer_change' = get_change_values_frac(span_values).total
    /\ previous_value' = FromInt(key_pair_list[kp].start_value)
    /\ index' = 1
    /\ written' = <<>>
    /\ last_op' = "set_preferred"
    /\ pc' = "w_loop"
    /\ UNCHANGED <<sceneVars, charVars, obj, anim, pose_layer, pose_keys,
                   key_pair_list, kp, span_values, current, pair_log>>

\* lines 123-133
WriteStep ==
    /\ pc = "w_loop"
    /\ index <= Len(frac_values)
    /\ LET key_pair      == key_pair_list[kp]
           value_delta   == value_delta_of(key_pair, frac_values[index].frac)
           base_value    == span_values[index].value
           current_value == current_value_of(key_pair, previous_value, value_delta)
       IN  /\ written' = Append(written,
                    [t |-> frac_values[index].t,
                     value |-> DblAdd(current_value, FromInt(base_value)),
                     animLayer |-> pose_layer,
                     value_delta |-> value_delta,
                     current_value |-> current_value,
                     direction |-> direction_of(key_pair)])
           /\ previous_value' = current_value
    /\ index' = index + 1
    /\ last_op' = "set_key"
    /\ UNCHANGED <<sceneVars, charVars, preferred, pc, obj, anim, pose_layer,
                   pose_keys, key_pair_list, kp, span_values, current,
                   frac_values, total_base_layer_change, pair_log, last_set>>

\* line 123: the loop over frac_values ends, back to line 109
PairEnd ==
    /\ pc = "w_loop"
    /\ index > Len(frac_values)
    /\ pair_log' = Append(pair_log,
            [start_time |-> key_pair_list[kp].start_time,
             stop_time  |-> key_pair_list[kp].stop_time,
             total      |-> total_base_layer_change,
             base_flat  |-> AllEqual(span_values),
             samples    |-> Len(span_values),
             writes     |-> Len(written)])
    /\ kp' = kp + 1
    /\ last_op' = "none"
    /\ pc' = "p_loop"
    /\ UNCHANGED <<sceneVars, charVars, preferred, obj, anim, pose_layer,
                   pose_keys, key_pair_list, span_values, current, frac_values,
                   total_base_layer_change, previous_value, index, written,
                   last_set>>

\* adjustment_blend_object returns: its locals are gone
ObjReturn ==
    /\ pc = "o_return"
    /\ anim' = NoAnim
    /\ pose_layer' = ""
    /\ pose_keys' = <<>>
    /\ key_pair_list' = <<>>
    /\ kp' = 0
    /\ span_values' = <<>>
    /\ current' = Zero
    /\ frac_values' = <<>>
    /\ total_base_layer_change' = 0
    /\ previous_value' = Zero
    /\ index' = 0
    /\ written' = <<>>
    /\ pair_log' = <<>>
    /\ last_op' = "none"
    /\ IF call = "object"
       THEN pc' = "done" /\ obj_idx' = obj_idx
       ELSE pc' = "c_loop" /\ obj_idx' = obj_idx + 1
    /\ UNCHANGED <<sceneVars, preferred, character, character_objs, warnings,
                   obj, last_set>>

ObjectNext(pool) ==
    \/ ObjEnter(pool)
    \/ ObjCurve
    \/ ObjKeys
    \/ ObjPairs
    \/ PairNext
    \/ PairsDone
    \/ SampleBegin
    \/ SampleStep
    \/ SampleEnd
    \/ WriteStep
    \/ PairEnd
    \/ ObjReturn

Next == ObjectNext(SceneAnims)

Spec == Init /\ [][Next]_vars

NextCharacter ==
    \/ CharResolve
    \/ CharMembers
    \/ CharLoop
    \/ ObjectNext(CharAnims)

SpecCharacter == InitCharacter /\ [][NextCharacter]_vars

NextBlend == ObjectNext(BlendAnims)

SpecBlend == InitTwoLayers /\ [][NextBlend]_vars

NextSample == ObjectNext(SampleAnims)

SpecSample == InitTwoLayers /\ [][NextSample]_vars

(* ------------------------- claims: vocabulary ------------------------- *)
One == FromInt(1)

DblLE(a, b) == ~ DblGT(a, b)

\* n * 2^-60 and the unrounded sum and product
Units(n) == Norm(0, 0, n)

ExactAdd(a, b) == Norm(a.h + b.h, a.m + b.m, a.l + b.l)

ExactMulInt(a, n) == Norm(a.h * n, a.m * n, a.l * n)

Within(a, b, tol) == DblLE(a, ExactAdd(b, tol)) /\ DblLE(b, ExactAdd(a, tol))

RECURSIVE ExactSum(_)
ExactSum(s) == IF s = <<>> THEN Zero ELSE ExactAdd(s[1], ExactSum(Tail(s)))

Max(a, b) == IF a > b THEN a ELSE b

\* the redistribution loop of a KeyPair is running or has just ended
InWrite == pc = "w_loop" \/ (pc = "p_loop" /\ kp > 1)

Finished == pc = "p_loop" /\ kp > 1

CurPair == key_pair_list[IF pc = "w_loop" THEN kp ELSE kp - 1]

Deltas == [i \in 1..Len(written) |-> written[i].value_delta]

Fracs == [i \in 1..Len(frac_values) |-> frac_values[i].frac]

BaseChange(i) == Abs(span_values[i].value - span_values[i - 1].value)

(* ------------------------------ C1 ------------------------------------ *)
\* C1 as stated: on a non-degenerate KeyPair the increments sum to exactly
\* stop_value - start_value, the accumulated pose value is start_value after
\* the first sample and exactly stop_value after the last.
C1_NetChangeExact ==
    (Finished /\ total_base_layer_change # 0) =>
        /\ written[1].current_value = FromInt(CurPair.start_value)
        /\ written[Len(written)].current_value = FromInt(CurPair.stop_value)
        /\ ExactSum(Deltas) = FromInt(total_pose_layer_change(CurPair))

\* C1: on a non-degenerate KeyPair the accumulated pose value is start_value
\* after the first sample, and after the last sample it is stop_value up to
\* the rounding of the float operations: with N samples it differs from
\* stop_value by at most N * 2^-50 * max(start_value, stop_value), and the
\* increments sum to |stop_value - start_value| within the same tolerance,
\* all applied in the direction of stop_value - start_value.
C1_NetChange ==
    (Finished /\ total_base_layer_change # 0) =>
        LET tol == Units(Len(written) * (2 ^ 10)
                         * Max(CurPair.start_value, CurPair.stop_value))
        IN  /\ written[1].current_value = FromInt(CurPair.start_value)
            /\ Within(written[Len(written)].current_value,
                      FromInt(CurPair.stop_value), tol)
            /\ Within(ExactSum(Deltas),
                      FromInt(total_pose_layer_change(CurPair)), tol)
            /\ \A i \in DOMAIN written :
                  written[i].direction =
                    (IF CurPair.stop_value > CurPair.start_value THEN 1 ELSE -1)

\* a descending non-degenerate KeyPair whose accumulated value misses
\* stop_value by a rounding error
C1_Witness ==
    /\ Finished
    /\ total_base_layer_change # 0
    /\ CurPair.stop_value < CurPair.start_value
    /\ written[Len(written)].current_value # FromInt(CurPair.stop_value)

(* ------------------------------ C2 ------------------------------------ *)
\* C2 as stated: value_delta[i] * total_base_change is exactly
\* |stop_value - start_value| * |base[i] - base[i-1]| at every sample i >= 1.
C2_ProportionalExact ==
    InWrite =>
        \A i \in 2..Len(written) :
            ExactMulInt(written[i].value_delta, total_base_layer_change)
              = FromInt(total_pose_layer_change(CurPair) * BaseChange(i))

\* C2: at every sample i >= 1 value_delta[i] * total_base_change equals
\* |stop_value - start_value| * |base[i] - base[i-1]| up to a relative
\* rounding error of 2^-51; the increment is exactly zero where the base
\* layer did not change and is exactly the whole pose change where the base
\* layer made its only change.
C2_Proportional ==
    InWrite =>
        \A i \in 2..Len(written) :
            LET target == total_pose_layer_change(CurPair) * BaseChange(i)
            IN  /\ Within(ExactMulInt(written[i].value_delta,
                                      total_base_layer_change),
                          FromInt(target), Units(target * (2 ^ 9)))
                /\ BaseChange(i) = 0 => written[i].value_delta = Zero
                /\ BaseChange(i) = total_base_layer_change =>
                      written[i].value_delta
                        = FromInt(total_pose_layer_change(CurPair))

\* increments were written, one of them a rounded share of the pose change
C2_Witness ==
    /\ InWrite
    /\ \E i \in 2..Len(written) :
          /\ BaseChange(i) # 0
          /\ ExactMulInt(written[i].value_delta, total_base_layer_change)
               # FromInt(total_pose_layer_change(CurPair) * BaseChange(i))
    /\ \E i \in 2..Len(written) : BaseChange(i) = 0

(* ------------------------------ C3 ------------------------------------ *)
FracShape ==
    /\ Len(frac_values) = Len(span_values)
    /\ \A i \in DOMAIN frac_values :
          /\ frac_values[i].t = span_values[i].t
          /\ DblLE(Zero, frac_values[i].frac)
          /\ DblLE(frac_values[i].frac, One)
    /\ frac_values[1].frac = Zero

\* C3 as stated: a non-degenerate span yields fractions of the span's length,
\* aligned on time, the first one 0, each in [0,1], summing to exactly 1.
C3_FractionsExact ==
    (pc = "w_loop" /\ total_base_layer_change # 0) =>
        FracShape /\ ExactSum(Fracs) = One

\* C3: a non-degenerate span yields fractions of the span's length, aligned
\* on time, the first one 0, each in [0,1], whose sum is 1 up to the rounding
\* of the divisions: it differs from 1 by at most N * 2^-51 for N samples;
\* the per-step absolute changes sum to the returned total.
C3_Fractions ==
    (pc = "w_loop" /\ total_base_layer_change # 0) =>
        /\ FracShape
        /\ Within(ExactSum(Fracs), One, Units(Len(frac_values) * (2 ^ 9)))
        /\ Sum([i \in 1..Len(span_values) |->
                  IF i = 1 THEN 0 ELSE BaseChange(i)]) = total_base_layer_change

\* fractions of a non-degenerate span that do not sum to exactly 1
C3_Witness ==
    /\ pc = "w_loop"
    /\ total_base_layer_change # 0
    /\ ExactSum(Fracs) # One

(* ------------------------------ C10 ----------------------------------- *)
\* C10 as stated: with stop_value = start_value on a non-degenerate interval
\* the redistribution descends: the accumulated pose value is below
\* start_value at some sample.
C10_EqualDescends ==
    (Finished /\ total_base_layer_change # 0
        /\ CurPair.stop_value = CurPair.start_value) =>
        \E i \in DOMAIN written :
            /\ written[i].direction = -1
            /\ DblGT(FromInt(CurPair.start_value), written[i].current_value)

\* C10: with stop_value = start_value the direction is computed as negative
\* (the strict test fails), but every increment is 0, so the accumulated
\* pose value equals start_value at every sample: nothing descends.
C10_EqualStaysFlat ==
    (InWrite /\ CurPair.stop_value = CurPair.start_value) =>
        \A i \in DOMAIN written :
            /\ written[i].direction = -1
            /\ written[i].value_delta = Zero
            /\ written[i].current_value = FromInt(CurPair.start_value)

\* a finished non-degenerate KeyPair with equal endpoint values
C10_Witness ==
    /\ Finished
    /\ total_base_layer_change # 0
    /\ CurPair.stop_value = CurPair.start_value
    /\ Len(written) > 1

(* ------------------------------ C4 ------------------------------------ *)
\* C4: when every base-layer sample of a KeyPair has the same value,
\* get_change_values_frac returns no fraction and no keyframe is written for
\* that KeyPair; every KeyPair of the object is processed all the same, and a
\* KeyPair whose base layer varies gets a keyframe per sample.
C4_DegenerateNoOp ==
    /\ (pc = "w_loop" /\ AllEqual(span_values)) =>
            frac_values = <<>> /\ total_base_layer_change = 0
    /\ \A i \in DOMAIN pair_log :
          /\ pair_log[i].base_flat => (pair_log[i].total = 0 /\ pair_log[i].writes = 0)
          /\ ~ pair_log[i].base_flat =>
                (pair_log[i].writes = pair_log[i].samples /\ pair_log[i].writes > 0)
    /\ (pc = "o_return" /\ key_pair_list # <<>>) =>
            Len(pair_log) = Len(key_pair_list)

\* the object returns after a degenerate KeyPair that wrote nothing and a
\* later KeyPair that was written
C4_Witness ==
    /\ pc = "o_return"
    /\ Len(pair_log) = 2
    /\ pair_log[1].base_flat
    /\ pair_log[1].writes = 0
    /\ pair_log[2].writes > 0

(* ------------------------------ C5 ------------------------------------ *)
\* C5: adjustment_blend_object returns without an error and without a
\* keyframe written when the scene has fewer than 2 layers, or the object has
\* no curve, or it has fewer than 2 pose-layer keys; with k >= 2 keys it
\* processes exactly k-1 KeyPairs, the i-th from key i to key i+1.
C5_SilentSkip ==
    /\ call = "object" => pc # "raised"
    /\ pc = "o_return" =>
          IF Len(get_all_layers) < 2 \/ ~ anim.has_curve \/ Len(anim.keys) < 2
          THEN key_pair_list = <<>> /\ pair_log = <<>> /\ written = <<>>
          ELSE /\ Len(pair_log) = Len(anim.keys) - 1
               /\ \A i \in DOMAIN pair_log :
                     /\ pair_log[i].start_time = anim.keys[i]
                     /\ pair_log[i].stop_time = anim.keys[i + 1]

\* the object returns after the keys of a one-key curve were read
C5_Witness ==
    /\ pc = "o_return"
    /\ Len(get_all_layers) > 1
    /\ anim.has_curve
    /\ Len(anim.keys) = 1
    /\ last_op = "read_keys"

(* ------------------------------ C6 ------------------------------------ *)
PreferredSet == {l \in DOMAIN preferred : preferred[l]}

\* C6: after set_layer_as_preferred(layer), whatever the flags were before,
\* the given layer is preferred and no other layer is; at every curve
\* evaluation of the blend at most one layer is preferred.
C6_ExactlyOnePreferred ==
    /\ last_set.layer # "" => PreferredSet = {last_set.layer}
    /\ last_op \in {"sample_eval", "eval_key", "read_keys", "query_curve"} =>
          Cardinality(PreferredSet) <= 1

\* the call just returned and had found two or more layers preferred
C6_Witness ==
    /\ last_op = "set_preferred"
    /\ last_set.layer # ""
    /\ Cardinality({l \in DOMAIN last_set.before : last_set.before[l]}) >= 2
    /\ ~ last_set.before[last_set.layer]

(* ------------------------------ C7 ------------------------------------ *)
\* C7: adjustment_blend_character called without a character in a scene
\* without characters emits a warning and ends without raising and without
\* writing a keyframe.
C7_NoCharacterWarns ==
    (call = "character" /\ character = "" /\ scene_chars = <<>>
        /\ pc # "c_resolve") =>
        /\ pc = "done"
        /\ warnings = 1
        /\ pair_log = <<>>
        /\ written = <<>>

(* ------------------------------ C8 ------------------------------------ *)
\* the sampler of the current KeyPair has finished
Sampled == pc = "w_loop" \/ Finished

\* C8: the sampler yields exactly the samples at start_time + k*step with
\* start_time + k*step <= stop_time, step = 0.2: between whole frames that is
\* 5*(stop_time - start_time) + 1 samples, the first at start_time and the
\* last at stop_time; a non-degenerate KeyPair gets one keyframe at each of
\* these times and at no other.
C8_SampleTimes ==
    Sampled =>
        /\ Len(span_values) = 5 * (CurPair.stop_time - CurPair.start_time) + 1
        /\ span_values[1].t = FromInt(CurPair.start_time)
        /\ span_values[Len(span_values)].t = FromInt(CurPair.stop_time)
        /\ \A i \in DOMAIN span_values :
              /\ DblLE(span_values[i].t, FromInt(CurPair.stop_time))
              /\ Within(ExactMulInt(span_values[i].t, 5),
                        FromInt(5 * CurPair.start_time + i - 1), Units(2 ^ 20))
        /\ (Finished /\ total_base_layer_change # 0) =>
              /\ Len(written) = Len(span_values)
              /\ \A i \in DOMAIN written : written[i].t = span_values[i].t

(* ------------------------------ C9 ------------------------------------ *)
OnlyPreferred(layer) == PreferredSet = {layer}

\* C9: every base-layer sample is evaluated with the root layer as the one
\* preferred layer; the pose-layer key times are read, the KeyPairs' values
\* evaluated and the keyframes set with the topmost additive layer as the
\* one preferred layer, so the samples are base-curve values and the
\* KeyPairs pose-curve values.
C9_PreferredAtEvaluation ==
    /\ last_op = "sample_eval" =>
          /\ OnlyPreferred(root_layer)
          /\ \A i \in DOMAIN span_values :
                span_values[i].value = BaseAt(anim, span_values[i].t)
    /\ last_op \in {"read_keys", "eval_key", "set_key"} =>
          /\ pose_layer = children[Len(children)]
          /\ OnlyPreferred(pose_layer)
          /\ pose_keys = anim.keys
    /\ last_op \in {"eval_key", "set_key"} =>
          \A i \in DOMAIN key_pair_list :
              /\ key_pair_list[i].start_value = anim.pose[i]
              /\ key_pair_list[i].stop_value = anim.pose[i + 1]
    /\ last_op = "set_key" =>
          written[Len(written)].animLayer = pose_layer

\* a keyframe of the second KeyPair is set with three layers in the scene
C9_Witness ==
    /\ last_op = "set_key"
    /\ kp = 2
    /\ Len(children) = 2
    /\ Len(span_values) > 1

====
